---- MODULE Spec2Model ----
(***************************************************************************)
(* Model of the transaction signers (src/src/tx_signer.rs) and of the      *)
(* invariant_violation path of the metrics (src/src/metrics.rs).           *)
(*                                                                         *)
(* One SidecarTxSigner and one TestTxSigner are constructed; a fixed set   *)
(* of concurrent callers shares both instances.  A sidecar call has one    *)
(* suspension point that matters: between sending the request and the      *)
(* response being available.  Byte strings are sequences of 0..255; the    *)
(* lengths of keys and signatures are scaled down (see Layout).            *)
(***************************************************************************)
EXTENDS Integers, Sequences, FiniteSets, TLC

VARIABLES
    sponsor_address,   \* SidecarTxSigner.sponsor_address
    sidecar_url,       \* SidecarTxSigner.sidecar_url
    keypair,           \* TestTxSigner.keypair
    calls,             \* caller -> the sign_transaction call it is in
    numSignCalls,      \* sign_transaction calls started (both backends)
    numRequests,       \* requests handed to the HTTP client
    lastQuery,         \* last get_address / is_valid_address call and its answer
    debug_assertions,  \* cfg!(debug_assertions) of the build
    counter,           \* pool -> value of its invariant violation IntCounter
    ivCalls,           \* pool -> invariant_violation calls made
    ivReturned,        \* pool -> invariant_violation calls that returned
    ivPanics,          \* pool -> invariant_violation calls that panicked
    errorLog           \* messages written by error!()

signerVars == <<sponsor_address, sidecar_url, keypair, calls, numSignCalls, numRequests, lastQuery>>
metricVars == <<debug_assertions, counter, ivCalls, ivReturned, ivPanics, errorLog>>
vars == <<sponsor_address, sidecar_url, keypair, calls, numSignCalls, numRequests, lastQuery,
          debug_assertions, counter, ivCalls, ivReturned, ivPanics, errorLog>>

\* ------------------------------------------------------------------ bounds
MaxCalls == 3
MaxViolations == 3

Callers == {"c1", "c2"}
Pools == {"gas", "storage"}
Messages == {"m1", "m2"}

\* ------------------------------------------------------------ byte helpers
RECURSIVE Fold31(_, _)
Fold31(h, s) == IF s = <<>> THEN h ELSE Fold31((h * 31 + s[1] + 1) % 65536, Tail(s))

\* The hash behind addresses and signing digests; 16 bits stand for 256.
Blake2b256(bytes) == Fold31(7, bytes)

\* --------------------------------------------------------------- payloads
\* bcs refuses values nested deeper than this.
MAX_CONTAINER_DEPTH == 500

\* A TransactionData is a list of u16 fields and the nesting depth of its
\* type tags; the signer never looks inside.
TransactionDatas ==
    { [fields |-> <<1>>, depth |-> 1],
      [fields |-> <<258>>, depth |-> 1],
      [fields |-> <<1>>, depth |-> MAX_CONTAINER_DEPTH + 1] }

RECURSIVE U16sLE(_)
U16sLE(fs) == IF fs = <<>> THEN <<>> ELSE <<fs[1] % 256, fs[1] \div 256>> \o U16sLE(Tail(fs))

\* Intent::sui_transaction(): scope TransactionData, version V0, app Sui.
IntentSuiTransaction == <<0, 0, 0>>

\* IntentMessage::new(Intent::sui_transaction(), tx_data)
IntentMessageNew(tx) == [intent |-> IntentSuiTransaction, value |-> tx]

\* bcs::to_bytes(&intent_msg): Ok(bytes) or Err
BcsToBytes(msg) ==
    IF msg.value.depth > MAX_CONTAINER_DEPTH
    THEN [ok |-> FALSE, bytes |-> <<>>]
    ELSE [ok |-> TRUE, bytes |-> msg.intent \o U16sLE(msg.value.fields)]

\* ------------------------------------------------------------- signatures
ED25519_FLAG == 0
SECP256K1_FLAG == 1
SECP256R1_FLAG == 2
KnownFlags == {ED25519_FLAG, SECP256K1_FLAG, SECP256R1_FLAG}

\* flag || signature || public key.  Lengths are scaled: the signature is
\* one byte (64 in Sui), an ed25519 key one byte (32), a secp key two (33).
Layout(flag) == [sig |-> 1, pk |-> IF flag = ED25519_FLAG THEN 1 ELSE 2]

NoSig == [flag |-> 255, sig |-> <<>>, pk |-> <<>>]

\* Signature::from_bytes
SignatureFromBytes(bytes) ==
    IF Len(bytes) = 0 THEN [ok |-> FALSE, sig |-> NoSig]
    ELSE IF bytes[1] \notin KnownFlags THEN [ok |-> FALSE, sig |-> NoSig]
    ELSE IF Len(bytes) # 1 + Layout(bytes[1]).sig + Layout(bytes[1]).pk
         THEN [ok |-> FALSE, sig |-> NoSig]
    ELSE [ok |-> TRUE,
          sig |-> [flag |-> bytes[1],
                   sig |-> SubSeq(bytes, 2, 1 + Layout(bytes[1]).sig),
                   pk |-> SubSeq(bytes, 2 + Layout(bytes[1]).sig, Len(bytes))]]

\* Signature::as_ref / to_bytes
SignatureToBytes(s) == <<s.flag>> \o s.sig \o s.pk

\* SuiKeyPair: scheme and secret scalar
KeyPairs == { [flag |-> ED25519_FLAG, sk |-> 1], [flag |-> SECP256K1_FLAG, sk |-> 2] }

\* SuiKeyPair::public
Public(kp) ==
    [flag |-> kp.flag,
     bytes |-> IF kp.flag = ED25519_FLAG THEN <<100 + kp.sk>> ELSE <<2, 100 + kp.sk>>]

\* SuiAddress::from(&PublicKey): hash of flag || public key bytes
AddressOfPublicKey(pub) == Blake2b256(<<pub.flag>> \o pub.bytes)

\* The raw signature the holder of the public key's secret makes over a digest.
RawSignature(pkBytes, digest) == <<(pkBytes[Len(pkBytes)] * 17 + digest) % 256>>

\* Signature::new_secure(&intent_msg, &keypair): signs the hash of the bcs
\* bytes of the intent message (serialization is expected to succeed).
SignatureNewSecure(bytes, kp) ==
    [flag |-> kp.flag,
     sig |-> RawSignature(Public(kp).bytes, Blake2b256(bytes)),
     pk |-> Public(kp).bytes]

\* Verification of a signature against a signer address and the encoded
\* intent message, as a verifier of sponsored transactions does it.
Verifies(s, address, bytes) ==
    /\ s # NoSig
    /\ AddressOfPublicKey([flag |-> s.flag, bytes |-> s.pk]) = address
    /\ s.sig = RawSignature(s.pk, Blake2b256(bytes))

OtherAddress == Blake2b256(<<9, 9>>)
Addresses == { AddressOfPublicKey(Public(kp)) : kp \in KeyPairs } \cup {OtherAddress}

\* ------------------------------------------------------------------- http
SidecarUrls == {"http://sidecar/sign"}

NoRequest == [url |-> "", content_type |-> <<>>, body |-> [none |-> <<>>]]
NoResponse == [sent |-> FALSE, to |-> NoRequest, status |-> 0,
               body |-> [shape |-> "none", elems |-> <<>>]]

\* What the sidecar endpoint may put in a body when asked to sign txBytes:
\* the signature of any key it holds, bytes that are no signature, an array
\* with a value that is no byte, JSON that is no array, or a body cut short.
EndpointBodies(txBytes) ==
    { [shape |-> "array", elems |-> SignatureToBytes(SignatureNewSecure(txBytes, kp))] :
          kp \in KeyPairs }
    \cup { [shape |-> "array", elems |-> <<9, 1, 1>>],
           [shape |-> "array", elems |-> <<ED25519_FLAG, 1>>],
           [shape |-> "array", elems |-> <<ED25519_FLAG, 256, 1>>],
           [shape |-> "object", elems |-> <<>>],
           [shape |-> "truncated", elems |-> <<ED25519_FLAG>>] }

Statuses == {200, 500}

\* Outcomes of client.post(..).send(): the exchange fails, or a response
\* (of any status) to that request arrives.
SendOutcomes(req) ==
    { [sent |-> FALSE, to |-> req, status |-> 0, body |-> [shape |-> "none", elems |-> <<>>]] }
    \cup { [sent |-> TRUE, to |-> req, status |-> st, body |-> b] :
              st \in Statuses, b \in EndpointBodies(req.body.txBytes) }

\* A json() that narrows every number to a byte instead of rejecting it.
ResponseJsonVecU8Narrowing(resp) ==
    IF resp.body.shape = "truncated" THEN [ok |-> FALSE, err |-> "NetworkError", bytes |-> <<>>]
    ELSE IF resp.body.shape # "array" THEN [ok |-> FALSE, err |-> "ParseError", bytes |-> <<>>]
    ELSE [ok |-> TRUE, err |-> "none",
          bytes |-> [i \in 1..Len(resp.body.elems) |-> resp.body.elems[i] % 256]]

\* resp.json::<Vec<u8>>()
ResponseJsonVecU8(resp) ==
    IF resp.body.shape = "truncated" THEN [ok |-> FALSE, err |-> "NetworkError", bytes |-> <<>>]
    ELSE IF resp.body.shape # "array" THEN [ok |-> FALSE, err |-> "ParseError", bytes |-> <<>>]
    ELSE IF \E i \in 1..Len(resp.body.elems) : resp.body.elems[i] \notin 0..255
         THEN [ok |-> FALSE, err |-> "ParseError", bytes |-> <<>>]
    ELSE [ok |-> TRUE, err |-> "none", bytes |-> resp.body.elems]

\* ---------------------------------------------------------------- results
Ok(s) == [tag |-> "Ok", sig |-> s, err |-> "none"]
Err(kind) == [tag |-> "Err", sig |-> NoSig, err |-> kind]
NoResult == [tag |-> "none", sig |-> NoSig, err |-> "none"]

NoTx == [fields |-> <<>>, depth |-> 0]
Idle == [pc |-> "idle", backend |-> "none", tx |-> NoTx, bytes |-> <<>>,
         request |-> NoRequest, sent |-> 0, resp |-> NoResponse,
         ran |-> <<>>, result |-> NoResult]

\* --------------------------------------------------------- SidecarTxSigner
\* A prepare that sends the bcs bytes of the transaction alone.
SidecarPrepareNoIntent(tx, url) ==
    LET enc == BcsToBytes([intent |-> <<>>, value |-> tx]) IN
    IF ~enc.ok THEN [ok |-> FALSE, bytes |-> <<>>, request |-> NoRequest]
    ELSE [ok |-> TRUE, bytes |-> enc.bytes,
          request |-> [url |-> url,
                       content_type |-> <<"application/json">>,
                       body |-> [txBytes |-> enc.bytes]]]

\* sign_transaction up to the send: the intent message, its bytes, the request.
SidecarPrepare(tx, url) ==
    LET enc == BcsToBytes(IntentMessageNew(tx)) IN
    IF ~enc.ok THEN [ok |-> FALSE, bytes |-> <<>>, request |-> NoRequest]
    ELSE [ok |-> TRUE, bytes |-> enc.bytes,
          request |-> [url |-> url,
                       content_type |-> <<"application/json">>,
                       body |-> [txBytes |-> enc.bytes]]]

\* A finish that hands out what it could read of a signature it cannot decode.
SidecarFinishPartial(out) ==
    IF ~out.sent THEN [ran |-> <<>>, result |-> Err("NetworkError")]
    ELSE LET parsed == ResponseJsonVecU8(out) IN
         IF ~parsed.ok THEN [ran |-> <<"json">>, result |-> Err(parsed.err)]
         ELSE LET dec == SignatureFromBytes(parsed.bytes) IN
              IF ~dec.ok
              THEN [ran |-> <<"json", "from_bytes">>,
                    result |-> [tag |-> "Err",
                                sig |-> [flag |-> 255, sig |-> parsed.bytes, pk |-> <<>>],
                                err |-> "InvalidSignatureEncoding"]]
              ELSE [ran |-> <<"json", "from_bytes">>, result |-> Ok(dec.sig)]

\* sign_transaction from the outcome of the send on.
SidecarFinish(out) ==
    IF ~out.sent THEN [ran |-> <<>>, result |-> Err("NetworkError")]
    ELSE LET parsed == ResponseJsonVecU8(out) IN
         IF ~parsed.ok THEN [ran |-> <<"json">>, result |-> Err(parsed.err)]
         ELSE LET dec == SignatureFromBytes(parsed.bytes) IN
              IF ~dec.ok
              THEN [ran |-> <<"json", "from_bytes">>, result |-> Err("InvalidSignatureEncoding")]
              ELSE [ran |-> <<"json", "from_bytes">>, result |-> Ok(dec.sig)]

\* A get_address that trusts the key of the last signature the endpoint sent.
Sidecar_get_address_from_endpoint ==
    IF \E c \in Callers : calls[c].backend = "sidecar" /\ calls[c].result.tag = "Ok"
    THEN LET c == CHOOSE d \in Callers :
                      calls[d].backend = "sidecar" /\ calls[d].result.tag = "Ok" IN
         AddressOfPublicKey([flag |-> calls[c].result.sig.flag, bytes |-> calls[c].result.sig.pk])
    ELSE sponsor_address

Sidecar_get_address == sponsor_address

\* ------------------------------------------------------------ TestTxSigner
\* A get_address that hashes the key bytes without the scheme flag.
Test_get_address_no_flag == Blake2b256(Public(keypair).bytes)

Test_get_address == AddressOfPublicKey(Public(keypair))

Backends == {"sidecar", "test"}
get_address(b) == IF b = "sidecar" THEN Sidecar_get_address ELSE Test_get_address

\* A check that compares the leading hex digit only.
is_valid_address_prefix(b, address) == get_address(b) \div 4096 = address \div 4096

\* TxSigner::is_valid_address, the default neither backend overrides
is_valid_address(b, address) == get_address(b) = address

\* ---------------------------------------------------------------- metrics
\* An invariant_violation that counts before it looks at the build.
InvariantViolationIncFirst(pool, msg) ==
    /\ ivCalls[pool] < MaxViolations
    /\ ivCalls' = [ivCalls EXCEPT ![pool] = @ + 1]
    /\ counter' = [counter EXCEPT ![pool] = @ + 1]
    /\ IF debug_assertions
       THEN /\ ivPanics' = [ivPanics EXCEPT ![pool] = @ + 1]
            /\ UNCHANGED <<ivReturned, errorLog>>
       ELSE /\ errorLog' = Append(errorLog, [pool |-> pool, msg |-> msg])
            /\ ivReturned' = [ivReturned EXCEPT ![pool] = @ + 1]
            /\ UNCHANGED ivPanics
    /\ UNCHANGED <<debug_assertions, signerVars>>

\* invariant_violation of GasPoolMetrics / StoragePoolMetrics
InvariantViolation(pool, msg) ==
    /\ ivCalls[pool] < MaxViolations
    /\ ivCalls' = [ivCalls EXCEPT ![pool] = @ + 1]
    /\ IF debug_assertions
       THEN /\ ivPanics' = [ivPanics EXCEPT ![pool] = @ + 1]
            /\ UNCHANGED <<counter, ivReturned, errorLog>>
       ELSE /\ errorLog' = Append(errorLog, [pool |-> pool, msg |-> msg])
            /\ counter' = [counter EXCEPT ![pool] = @ + 1]
            /\ ivReturned' = [ivReturned EXCEPT ![pool] = @ + 1]
            /\ UNCHANGED ivPanics
    /\ UNCHANGED <<debug_assertions, signerVars>>

GasPoolInvariantViolation == \E msg \in Messages : InvariantViolation("gas", msg)
StoragePoolInvariantViolation == \E msg \in Messages : InvariantViolation("storage", msg)

\* ---------------------------------------------------------------- actions
SidecarSignStart(c) ==
    \E tx \in TransactionDatas :
        /\ calls[c].pc = "idle"
        /\ numSignCalls < MaxCalls
        /\ numSignCalls' = numSignCalls + 1
        /\ LET prep == SidecarPrepare(tx, sidecar_url) IN
           IF ~prep.ok
           THEN /\ calls' = [calls EXCEPT ![c] =
                        [Idle EXCEPT !.pc = "done", !.backend = "sidecar", !.tx = tx,
                                     !.ran = <<"encode">>,
                                     !.result = Err("SerializationError")]]
                /\ UNCHANGED numRequests
           ELSE /\ calls' = [calls EXCEPT ![c] =
                        [Idle EXCEPT !.pc = "awaiting", !.backend = "sidecar", !.tx = tx,
                                     !.bytes = prep.bytes, !.request = prep.request,
                                     !.ran = <<"encode", "send">>, !.sent = 1]]
                /\ numRequests' = numRequests + 1
        /\ UNCHANGED <<sponsor_address, sidecar_url, keypair, lastQuery, metricVars>>

\* A resume that sends the request again when the call would fail.
SidecarSignResumeRetry(c) ==
    /\ calls[c].pc = "awaiting"
    /\ \E out \in SendOutcomes(calls[c].request) :
          LET fin == SidecarFinish(out) IN
          IF fin.result.tag = "Err"
          THEN /\ calls' = [calls EXCEPT ![c].sent = @ + 1, ![c].resp = out]
               /\ numRequests' = numRequests + 1
          ELSE /\ calls' = [calls EXCEPT ![c].pc = "done", ![c].resp = out,
                                         ![c].ran = @ \o fin.ran, ![c].result = fin.result]
               /\ UNCHANGED numRequests
    /\ UNCHANGED <<sponsor_address, sidecar_url, keypair, numSignCalls, lastQuery, metricVars>>

SidecarSignResume(c) ==
    /\ calls[c].pc = "awaiting"
    /\ \E out \in SendOutcomes(calls[c].request) :
          LET fin == SidecarFinish(out) IN
          calls' = [calls EXCEPT ![c].pc = "done", ![c].resp = out,
                                 ![c].ran = @ \o fin.ran, ![c].result = fin.result]
    /\ UNCHANGED <<sponsor_address, sidecar_url, keypair, numSignCalls, numRequests,
                   lastQuery, metricVars>>

\* TestTxSigner::sign_transaction has no suspension point.  new_secure
\* panics on a message bcs cannot serialize.
TestSign(c) ==
    \E tx \in TransactionDatas :
        /\ calls[c].pc = "idle"
        /\ numSignCalls < MaxCalls
        /\ numSignCalls' = numSignCalls + 1
        /\ LET enc == BcsToBytes(IntentMessageNew(tx)) IN
           calls' = [calls EXCEPT ![c] =
               IF ~enc.ok
               THEN [Idle EXCEPT !.pc = "panicked", !.backend = "test", !.tx = tx,
                                 !.ran = <<"encode">>]
               ELSE [Idle EXCEPT !.pc = "done", !.backend = "test", !.tx = tx,
                                 !.bytes = enc.bytes, !.ran = <<"encode", "sign">>,
                                 !.result = Ok(SignatureNewSecure(enc.bytes, keypair))]]
        /\ UNCHANGED <<sponsor_address, sidecar_url, keypair, numRequests, lastQuery, metricVars>>

\* The caller takes the result; it may call again.
Return(c) ==
    /\ calls[c].pc \in {"done", "panicked"}
    /\ calls' = [calls EXCEPT ![c] = Idle]
    /\ UNCHANGED <<sponsor_address, sidecar_url, keypair, numSignCalls, numRequests,
                   lastQuery, metricVars>>

NoQuery == [op |-> "none", backend |-> "none", candidate |-> 0, address |-> 0, valid |-> FALSE]

GetAddress(b) ==
    /\ lastQuery' = [NoQuery EXCEPT !.op = "get_address", !.backend = b,
                                    !.address = get_address(b)]
    /\ UNCHANGED <<sponsor_address, sidecar_url, keypair, calls, numSignCalls, numRequests,
                   metricVars>>

IsValidAddress(b) ==
    \E a \in Addresses :
        /\ lastQuery' = [NoQuery EXCEPT !.op = "is_valid_address", !.backend = b,
                                        !.candidate = a, !.valid = is_valid_address(b, a)]
        /\ UNCHANGED <<sponsor_address, sidecar_url, keypair, calls, numSignCalls, numRequests,
                       metricVars>>

\* ------------------------------------------------------------------- spec
\* SidecarTxSigner::new, TestTxSigner::new, the metrics' new
Init ==
    /\ sponsor_address \in Addresses
    /\ sidecar_url \in SidecarUrls
    /\ keypair \in KeyPairs
    /\ calls = [c \in Callers |-> Idle]
    /\ numSignCalls = 0
    /\ numRequests = 0
    /\ lastQuery = NoQuery
    /\ debug_assertions \in BOOLEAN
    /\ counter = [p \in Pools |-> 0]
    /\ ivCalls = [p \in Pools |-> 0]
    /\ ivReturned = [p \in Pools |-> 0]
    /\ ivPanics = [p \in Pools |-> 0]
    /\ errorLog = <<>>

Next ==
    \/ \E c \in Callers : SidecarSignStart(c)
    \/ \E c \in Callers : SidecarSignResume(c)
    \/ \E c \in Callers : TestSign(c)
    \/ \E c \in Callers : Return(c)
    \/ \E b \in Backends : GetAddress(b)
    \/ \E b \in Backends : IsValidAddress(b)

Spec == Init /\ [][Next]_vars

NextMetrics ==
    \/ GasPoolInvariantViolation
    \/ StoragePoolInvariantViolation

SpecMetrics == Init /\ [][NextMetrics]_vars

TypeOK ==
    /\ sponsor_address \in Addresses
    /\ keypair \in KeyPairs
    /\ numRequests <= numSignCalls
    /\ \A c \in Callers : calls[c].pc \in {"idle", "awaiting", "done", "panicked"}

\* ----------------------------------------------------------------- claims
Encodable(tx) == tx.depth <= MAX_CONTAINER_DEPTH
EncodedIntent(tx) == IntentSuiTransaction \o U16sLE(tx.fields)
IsByteArray(body) ==
    /\ body.shape = "array"
    /\ \A i \in 1..Len(body.elems) : body.elems[i] \in 0..255
InvalidEncoding(b) ==
    \/ Len(b) = 0
    \/ b[1] \notin KnownFlags
    \/ Len(b) # 1 + Layout(b[1]).sig + Layout(b[1]).pk
ConstructedAddress(b) ==
    IF b = "sidecar" THEN sponsor_address ELSE AddressOfPublicKey(Public(keypair))
SidecarDone(c) == calls[c].backend = "sidecar" /\ calls[c].pc = "done"
TestDone(c) == calls[c].backend = "test" /\ calls[c].pc = "done"

\* C1: every signature a backend returns verifies against that backend's
\* get_address() and the intent-encoded transaction.
C1_ReturnedSignatureVerifies ==
    \A c \in Callers :
        (calls[c].pc = "done" /\ calls[c].result.tag = "Ok")
            => Verifies(calls[c].result.sig, get_address(calls[c].backend),
                        EncodedIntent(calls[c].tx))

\* C2: the answer of is_valid_address(a) is true exactly when a is the
\* address the backend was constructed with, whatever sign calls have
\* happened since.
C2_AuthorizationPredicate ==
    lastQuery.op = "is_valid_address"
        => (lastQuery.valid <=> lastQuery.candidate = ConstructedAddress(lastQuery.backend))

C2_Witness ==
    /\ lastQuery.op = "is_valid_address"
    /\ ~lastQuery.valid
    /\ lastQuery.candidate \div 4096 = ConstructedAddress(lastQuery.backend) \div 4096
    /\ \E c \in Callers : calls[c].pc = "done" /\ calls[c].result.tag = "Err"
    /\ \E c \in Callers : calls[c].pc = "done" /\ calls[c].result.tag = "Ok"

\* C3: a response with a non-success status makes the sidecar call fail
\* with a NetworkError and without a signature.
C3_NonSuccessStatusIsNetworkError ==
    \A c \in Callers :
        (SidecarDone(c) /\ calls[c].resp.sent /\ calls[c].resp.status \notin 200..299)
            => calls[c].result = Err("NetworkError")

\* C4: a sidecar call ends with a signature or with an error, never both;
\* the step that fails decides the error, no later step runs, and bytes
\* that are no signature encoding give InvalidSignatureEncoding.
C4_SignatureOrError ==
    \A c \in Callers :
        SidecarDone(c) =>
            /\ calls[c].result.tag \in {"Ok", "Err"}
            /\ calls[c].result.tag = "Ok" <=> calls[c].result.sig # NoSig
            /\ calls[c].result.tag = "Ok" <=> calls[c].result.err = "none"
            /\ ~Encodable(calls[c].tx) =>
                  /\ calls[c].result = Err("SerializationError")
                  /\ calls[c].ran = <<"encode">>
                  /\ calls[c].sent = 0
                  /\ calls[c].request = NoRequest
            /\ (Encodable(calls[c].tx) /\ ~calls[c].resp.sent) =>
                  /\ calls[c].result = Err("NetworkError")
                  /\ calls[c].ran = <<"encode", "send">>
            /\ (calls[c].resp.sent /\ ~IsByteArray(calls[c].resp.body)) =>
                  /\ calls[c].result.tag = "Err"
                  /\ calls[c].ran = <<"encode", "send", "json">>
            /\ (calls[c].resp.sent /\ IsByteArray(calls[c].resp.body)
                  /\ InvalidEncoding(calls[c].resp.body.elems)) =>
                  /\ calls[c].result = Err("InvalidSignatureEncoding")
                  /\ calls[c].ran = <<"encode", "send", "json", "from_bytes">>

C4_Witness ==
    \E c \in Callers :
        /\ SidecarDone(c)
        /\ calls[c].resp.sent
        /\ calls[c].resp.body.elems = <<9, 1, 1>>
        /\ calls[c].result = Err("InvalidSignatureEncoding")

\* C5: a sidecar call sends at most one request, exactly one once the
\* encoding has succeeded, and the requests sent never outnumber the sign
\* calls made.
C5_SingleRequestPerCall ==
    /\ numRequests <= numSignCalls
    /\ \A c \in Callers :
          /\ calls[c].sent <= 1
          /\ (calls[c].backend = "sidecar" /\ Encodable(calls[c].tx)) => calls[c].sent = 1
          /\ (calls[c].backend = "sidecar" /\ ~Encodable(calls[c].tx)) => calls[c].sent = 0

C5_Witness ==
    /\ numRequests = 2
    /\ numSignCalls = 3
    /\ \E c \in Callers : SidecarDone(c) /\ calls[c].sent = 1 /\ calls[c].result.tag = "Err"

\* C6: in a production build every invariant_violation call logs, returns
\* and adds one to its own counter, which never decreases; in a debug build
\* every call panics, none returns, and the counters stay where they were.
C6_Counts ==
    \A p \in Pools :
        IF debug_assertions
        THEN /\ counter[p] = 0
             /\ ivReturned[p] = 0
             /\ ivPanics[p] = ivCalls[p]
             /\ errorLog = <<>>
        ELSE /\ counter[p] = ivCalls[p]
             /\ ivReturned[p] = ivCalls[p]
             /\ ivPanics[p] = 0
             /\ Cardinality({i \in 1..Len(errorLog) : errorLog[i].pool = p}) = ivCalls[p]

C7_TestSigner ==
    /\ (lastQuery.op = "get_address" /\ lastQuery.backend = "test")
          => lastQuery.address = AddressOfPublicKey(Public(keypair))
    /\ \A c \in Callers :
          calls[c].backend = "test" =>
              /\ calls[c].result.tag # "Err"
              /\ calls[c].sent = 0
              /\ calls[c].request = NoRequest
              /\ calls[c].pc = "done" =>
                    /\ calls[c].result.tag = "Ok"
                    /\ Verifies(calls[c].result.sig, AddressOfPublicKey(Public(keypair)),
                                EncodedIntent(calls[c].tx))
                    /\ \A a \in Addresses \ {AddressOfPublicKey(Public(keypair))} :
                          ~Verifies(calls[c].result.sig, a, EncodedIntent(calls[c].tx))

C7_Witness ==
    /\ lastQuery.op = "get_address"
    /\ lastQuery.backend = "test"
    /\ keypair.flag = SECP256K1_FLAG
    /\ \E c \in Callers : TestDone(c) /\ calls[c].result.tag = "Ok"

\* C8: both backends encode a payload to the same bytes, the intent tag
\* followed by the payload; the sidecar puts them in txBytes and the test
\* signer signs them.
C8_SharedEncoding ==
    \A c \in Callers :
        (calls[c].pc \in {"awaiting", "done"} /\ Encodable(calls[c].tx)) =>
            /\ calls[c].bytes = EncodedIntent(calls[c].tx)
            /\ calls[c].backend = "sidecar" => calls[c].request.body.txBytes = calls[c].bytes
            /\ \A d \in Callers :
                  (calls[d].pc \in {"awaiting", "done"} /\ calls[d].tx = calls[c].tx) =>
                      /\ calls[d].bytes = calls[c].bytes
                      /\ (calls[c].backend = "sidecar" /\ TestDone(d)) =>
                            Verifies(calls[d].result.sig, AddressOfPublicKey(Public(keypair)),
                                     calls[c].request.body.txBytes)

C8_Witness ==
    \E c, d \in Callers :
        /\ calls[c].backend = "sidecar"
        /\ calls[c].pc = "awaiting"
        /\ TestDone(d)
        /\ calls[d].tx = calls[c].tx
        /\ calls[c].tx.fields = <<258>>

\* C9: the configuration of both backends never changes, get_address
\* answers with it whatever the endpoint has sent, every response is the one
\* to the call's own request, and two calls with the same payload and the
\* same response end the same way.
C9_Independent ==
    /\ lastQuery.op = "get_address" => lastQuery.address = ConstructedAddress(lastQuery.backend)
    /\ \A c \in Callers :
          (SidecarDone(c) /\ Encodable(calls[c].tx)) =>
              /\ calls[c].resp.to = calls[c].request
              /\ calls[c].request.body.txBytes = EncodedIntent(calls[c].tx)
    /\ \A c, d \in Callers :
          (calls[c].pc = "done" /\ calls[d].pc = "done"
             /\ calls[c].backend = calls[d].backend
             /\ calls[c].tx = calls[d].tx /\ calls[c].resp = calls[d].resp)
              => calls[c].result = calls[d].result

C9_ImmutableAndIndependent ==
    /\ []C9_Independent
    /\ [][/\ sponsor_address' = sponsor_address
          /\ sidecar_url' = sidecar_url
          /\ keypair' = keypair]_vars

C9_Witness ==
    /\ lastQuery.op = "get_address"
    /\ lastQuery.backend = "sidecar"
    /\ SidecarDone("c1")
    /\ calls["c1"].result.tag = "Ok"
    /\ AddressOfPublicKey([flag |-> calls["c1"].result.sig.flag,
                           bytes |-> calls["c1"].result.sig.pk]) # sponsor_address
    /\ calls["c2"].backend = "sidecar"
    /\ calls["c2"].pc = "awaiting"

\* C10: the request is a JSON object with the one field txBytes holding the
\* encoded intent message, sent as application/json to the configured url;
\* a body that is a valid signature encoding is returned decoded, and a body
\* that is no array of bytes is a failure without a signature.
C10_WireContract ==
    \A c \in Callers :
        (calls[c].backend = "sidecar" /\ calls[c].sent = 1) =>
            /\ calls[c].request.url = sidecar_url
            /\ calls[c].request.content_type = <<"application/json">>
            /\ DOMAIN calls[c].request.body = {"txBytes"}
            /\ calls[c].request.body.txBytes = EncodedIntent(calls[c].tx)
            /\ (calls[c].pc = "done" /\ calls[c].resp.sent) =>
                  /\ (IsByteArray(calls[c].resp.body)
                        /\ SignatureFromBytes(calls[c].resp.body.elems).ok) =>
                        /\ calls[c].result = Ok(SignatureFromBytes(calls[c].resp.body.elems).sig)
                        /\ SignatureToBytes(calls[c].result.sig) = calls[c].resp.body.elems
                  /\ ~IsByteArray(calls[c].resp.body) =>
                        /\ calls[c].result.tag = "Err"
                        /\ calls[c].result.sig = NoSig
                        /\ calls[c].ran = <<"encode", "send", "json">>

C10_Witness ==
    \E c \in Callers :
        /\ SidecarDone(c)
        /\ calls[c].resp.sent
        /\ calls[c].resp.body.shape = "array"
        /\ Len(calls[c].resp.body.elems) = 4
        /\ calls[c].result.tag = "Ok"

====
